---- MODULE Spec2Model ----
(***************************************************************************)
(* MiniChess 4x4 with tabular reinforcement learning                       *)
(* (src/PLE3/minichess.py): the rules engine JuegoMiniChess, the learning  *)
(* agent JugadorMiniChessMaq and the training driver fit/jugar.            *)
(*                                                                         *)
(* Python floats are modelled in fixed point: a value v is the integer     *)
(* v * ESCALA.  Hyper-parameters are fractions <<num, den>>.               *)
(***************************************************************************)
EXTENDS Integers, Sequences, FiniteSets, TLC

\* ------------------------------------------------------------------------
\* Program constants
\* ------------------------------------------------------------------------
N_FILAS == 4
N_COLS == 4
PEON == 1
TORRE == 5
REY == 6
\* the literal 50 of the draw rule in __calcula_ganador
LIMITE_SIN_CAPTURA == 50
\* return value None of __calcula_ganador (1, -1 and 0 are the other three)
None == 2
\* value None of the field _estado
EstadoNone == "None"
\* fixed-point unit of the float values (1.0 is ESCALA)
ESCALA == 10 * 10 * 10 * 10 * 10 * 10 * 10 * 10
\* -np.inf of decide_accion: below every table value
MENOS_INF == 0 - 2 * ESCALA
\* default hyper-parameters of JugadorMiniChessMaq.__init__
TASA_EXPLORACION == <<3, 10>>
TASA_APRENDIZAJE == <<1, 5>>
DESCUENTO_GAMMA == <<9, 10>>

\* ------------------------------------------------------------------------
\* Bounds of the model
\* ------------------------------------------------------------------------
\* number of plies of a training run whose random draws are unrestricted;
\* afterwards the generator returns its largest draw
MaxLibres == 3
\* episodes played by fit
MaxRondas == 2
\* resolution of the random generator: draws are z / GRANO, z in 0..GRANO-1
GRANO == 4
\* longest injected episode trace for reward propagation
MaxTraza == 3

VARIABLES
    tablero,                \* JuegoMiniChess._tablero
    fin,                    \* JuegoMiniChess._fin
    estado,                 \* JuegoMiniChess._estado
    siguiente_jugador,      \* JuegoMiniChess._siguiente_jugador
    turnos_sin_captura,     \* JuegoMiniChess._turnos_sin_captura
    estados_juego_actual,   \* [1..2 -> trace]: JugadorMiniChess._estados_juego_actual
    experiencia_estado_valor, \* [1..2 -> table]: _experiencia_estado_valor
    tasa_exploracion,       \* [1..2 -> fraction]: _tasa_exploracion
    tipo_jugador2,          \* type(self._jugador2): "Maq" or "Hum"
    pc,                     \* position in fit / jugar
    ronda,                  \* loop variable i of fit (episodes started)
    ganador,                \* last value returned by __calcula_ganador
    accion,                 \* last move returned by decide_accion
    azar,                   \* draws handed to an injected decide_accion
    libres,                 \* plies left with unrestricted draws
    n_mov,                  \* moves applied in the current episode
    llamadas,               \* calls of retropropaga_recompensa in the episode
    recompensa_final,       \* argument of an injected retropropaga_recompensa
    exp_antes               \* table of agent 1 before the last propagation

vars == <<tablero, fin, estado, siguiente_jugador, turnos_sin_captura,
          estados_juego_actual, experiencia_estado_valor, tasa_exploracion,
          tipo_jugador2, pc, ronda, ganador, accion, azar, libres, n_mov,
          llamadas, recompensa_final, exp_antes>>

\* ------------------------------------------------------------------------
\* Board model
\* ------------------------------------------------------------------------
Casillas == (0 .. N_FILAS - 1) \X (0 .. N_COLS - 1)

Piezas == {0, PEON, TORRE, REY, 0 - PEON, 0 - TORRE, 0 - REY}

InicializarTablero ==
    [c \in Casillas |->
        CASE c = <<0, 0>> -> TORRE
          [] c = <<0, 1>> -> REY
          [] c = <<1, 0>> -> PEON
          [] c = <<3, 3>> -> 0 - TORRE
          [] c = <<3, 2>> -> 0 - REY
          [] c = <<2, 3>> -> 0 - PEON
          [] OTHER -> 0]

\* str() of one float cell as numpy prints it
TextoPieza(v) ==
    CASE v = 0 -> "0."
      [] v = PEON -> "1."
      [] v = TORRE -> "5."
      [] v = REY -> "6."
      [] v = 0 - PEON -> "-1."
      [] v = 0 - TORRE -> "-5."
      [] v = 0 - REY -> "-6."

\* numpy pads every element to the width of the widest one
TextoCelda(v, hay_negativos) ==
    IF hay_negativos /\ v >= 0 THEN " " \o TextoPieza(v) ELSE TextoPieza(v)

RECURSIVE TextoDesde(_, _, _, _, _)
TextoDesde(t, n_filas, n_cols, k, hay_negativos) ==
    IF k >= n_cols * n_filas THEN "]"
    ELSE (IF k = 0 THEN "" ELSE " ")
         \o TextoCelda(t[<<k \div n_cols, k % n_cols>>], hay_negativos)
         \o TextoDesde(t, n_filas, n_cols, k + 1, hay_negativos)

\* the key made of the first row of the board only
SerializaEstado_una_fila(t, n_filas, n_cols) ==
    "[" \o TextoDesde(t, 1, n_cols, 0, \E c \in DOMAIN t : t[c] < 0)

\* _serializa_estado: str(tablero.reshape(n_cols * n_filas))
SerializaEstado(t, n_filas, n_cols) ==
    "[" \o TextoDesde(t, n_filas, n_cols, 0, \E c \in DOMAIN t : t[c] < 0)

\* ------------------------------------------------------------------------
\* Move generator
\* ------------------------------------------------------------------------
EnTablero(i, j) == 0 <= i /\ i < N_FILAS /\ 0 <= j /\ j < N_COLS

\* the pawn that also steps straight onto an opposing piece
MovimientosPeon_captura_de_frente(t, origen, jugador) ==
    LET i == origen[1]
        j == origen[2]
        direccion == IF jugador = 1 THEN 1 ELSE 0 - 1
        nueva_i == i + direccion
        Captura(nueva_j) ==
            IF EnTablero(nueva_i, nueva_j) /\ t[<<nueva_i, nueva_j>>] * jugador < 0
            THEN << <<origen, <<nueva_i, nueva_j>>>> >> ELSE << >>
    IN  (IF 0 <= nueva_i /\ nueva_i < N_FILAS /\ t[<<nueva_i, j>>] * jugador <= 0
         THEN << <<origen, <<nueva_i, j>>>> >> ELSE << >>)
        \o Captura(j - 1) \o Captura(j + 1)

\* __movimientos_peon
MovimientosPeon(t, origen, jugador) ==
    LET i == origen[1]
        j == origen[2]
        direccion == IF jugador = 1 THEN 1 ELSE 0 - 1
        nueva_i == i + direccion
        Captura(nueva_j) ==
            IF EnTablero(nueva_i, nueva_j) /\ t[<<nueva_i, nueva_j>>] * jugador < 0
            THEN << <<origen, <<nueva_i, nueva_j>>>> >> ELSE << >>
    IN  (IF 0 <= nueva_i /\ nueva_i < N_FILAS /\ t[<<nueva_i, j>>] = 0
         THEN << <<origen, <<nueva_i, j>>>> >> ELSE << >>)
        \o Captura(j - 1) \o Captura(j + 1)

\* the ray of a rook that goes on past the piece it captures
RECURSIVE RayoTorre_salta(_, _, _, _, _, _, _)
RayoTorre_salta(t, origen, jugador, di, dj, nueva_i, nueva_j) ==
    IF ~EnTablero(nueva_i, nueva_j) THEN << >>
    ELSE LET casilla == t[<<nueva_i, nueva_j>>]
         IN  IF casilla = 0 \/ casilla * jugador < 0
             THEN << <<origen, <<nueva_i, nueva_j>>>> >>
                  \o RayoTorre_salta(t, origen, jugador, di, dj,
                                     nueva_i + di, nueva_j + dj)
             ELSE << >>

\* the while loop of __movimientos_torre along the direction (di, dj)
RECURSIVE RayoTorre(_, _, _, _, _, _, _)
RayoTorre(t, origen, jugador, di, dj, nueva_i, nueva_j) ==
    IF ~EnTablero(nueva_i, nueva_j) THEN << >>
    ELSE LET casilla == t[<<nueva_i, nueva_j>>]
         IN  IF casilla = 0
             THEN << <<origen, <<nueva_i, nueva_j>>>> >>
                  \o RayoTorre(t, origen, jugador, di, dj, nueva_i + di, nueva_j + dj)
             ELSE IF casilla * jugador < 0
             THEN << <<origen, <<nueva_i, nueva_j>>>> >>
             ELSE << >>

MovimientosTorre(t, origen, jugador) ==
    LET i == origen[1]
        j == origen[2]
    IN  RayoTorre(t, origen, jugador, 0 - 1, 0, i - 1, j)
        \o RayoTorre(t, origen, jugador, 1, 0, i + 1, j)
        \o RayoTorre(t, origen, jugador, 0, 0 - 1, i, j - 1)
        \o RayoTorre(t, origen, jugador, 0, 1, i, j + 1)

DireccionesRey ==
    << <<0 - 1, 0 - 1>>, <<0 - 1, 0>>, <<0 - 1, 1>>,
       <<0, 0 - 1>>,                   <<0, 1>>,
       <<1, 0 - 1>>,     <<1, 0>>,     <<1, 1>> >>

\* the king stepping on every neighbour on the board, whatever it holds
RECURSIVE ReyDesde_sin_ocupacion(_, _, _, _)
ReyDesde_sin_ocupacion(t, origen, jugador, k) ==
    IF k > Len(DireccionesRey) THEN << >>
    ELSE LET nueva_i == origen[1] + DireccionesRey[k][1]
             nueva_j == origen[2] + DireccionesRey[k][2]
         IN  (IF EnTablero(nueva_i, nueva_j)
              THEN << <<origen, <<nueva_i, nueva_j>>>> >> ELSE << >>)
             \o ReyDesde_sin_ocupacion(t, origen, jugador, k + 1)

\* the loop of __movimientos_rey over direcciones[k..]
RECURSIVE ReyDesde(_, _, _, _)
ReyDesde(t, origen, jugador, k) ==
    IF k > Len(DireccionesRey) THEN << >>
    ELSE LET nueva_i == origen[1] + DireccionesRey[k][1]
             nueva_j == origen[2] + DireccionesRey[k][2]
         IN  (IF EnTablero(nueva_i, nueva_j)
                 /\ (t[<<nueva_i, nueva_j>>] = 0
                     \/ t[<<nueva_i, nueva_j>>] * jugador < 0)
              THEN << <<origen, <<nueva_i, nueva_j>>>> >> ELSE << >>)
             \o ReyDesde(t, origen, jugador, k + 1)

\* the king that moves only by capturing
MovimientosRey_solo_capturas(t, origen, jugador) ==
    SelectSeq(ReyDesde(t, origen, jugador, 1), LAMBDA m : t[m[2]] # 0)

\* __movimientos_rey
MovimientosRey(t, origen, jugador) == ReyDesde(t, origen, jugador, 1)

Abs(x) == IF x < 0 THEN 0 - x ELSE x

\* the scan that moves the pieces of both sides
MovimientosPieza_sin_bando(t, origen, jugador) ==
    LET pieza == t[origen]
    IN  CASE Abs(pieza) = PEON -> MovimientosPeon(t, origen, jugador)
          [] Abs(pieza) = TORRE -> MovimientosTorre(t, origen, jugador)
          [] Abs(pieza) = REY -> MovimientosRey(t, origen, jugador)
          [] OTHER -> << >>

\* the body of the scan of __calcular_movimientos_validos for one cell
MovimientosPieza(t, origen, jugador) ==
    LET pieza == t[origen]
    IN  IF (jugador = 1 /\ pieza > 0) \/ (jugador = 0 - 1 /\ pieza < 0)
        THEN CASE Abs(pieza) = PEON -> MovimientosPeon(t, origen, jugador)
               [] Abs(pieza) = TORRE -> MovimientosTorre(t, origen, jugador)
               [] Abs(pieza) = REY -> MovimientosRey(t, origen, jugador)
               [] OTHER -> << >>
        ELSE << >>

RECURSIVE MovimientosDesde(_, _, _)
MovimientosDesde(t, jugador, k) ==
    IF k >= N_FILAS * N_COLS THEN << >>
    ELSE MovimientosPieza(t, <<k \div N_COLS, k % N_COLS>>, jugador)
         \o MovimientosDesde(t, jugador, k + 1)

\* __calcular_movimientos_validos
CalcularMovimientosValidos(t, jugador) == MovimientosDesde(t, jugador, 0)

\* ------------------------------------------------------------------------
\* Game state machine
\* ------------------------------------------------------------------------
HayPieza(t, v) == \E c \in Casillas : t[c] = v

\* __calcula_ganador with the draw declared one move late (> for >=)
CalculaGanador_tablas_tarde(t, turnos) ==
    IF ~HayPieza(t, REY) THEN [res |-> 0 - 1, fin |-> TRUE]
    ELSE IF ~HayPieza(t, 0 - REY) THEN [res |-> 1, fin |-> TRUE]
    ELSE IF Len(CalcularMovimientosValidos(t, 1)) = 0
    THEN [res |-> 0 - 1, fin |-> TRUE]
    ELSE IF Len(CalcularMovimientosValidos(t, 0 - 1)) = 0
    THEN [res |-> 1, fin |-> TRUE]
    ELSE IF turnos > LIMITE_SIN_CAPTURA THEN [res |-> 0, fin |-> TRUE]
    ELSE [res |-> None, fin |-> FALSE]

\* __calcula_ganador that looks for the king of jugador 2 first
CalculaGanador_rey_j2_primero(t, turnos) ==
    IF ~HayPieza(t, 0 - REY) THEN [res |-> 1, fin |-> TRUE]
    ELSE IF ~HayPieza(t, REY) THEN [res |-> 0 - 1, fin |-> TRUE]
    ELSE IF Len(CalcularMovimientosValidos(t, 1)) = 0
    THEN [res |-> 0 - 1, fin |-> TRUE]
    ELSE IF Len(CalcularMovimientosValidos(t, 0 - 1)) = 0
    THEN [res |-> 1, fin |-> TRUE]
    ELSE IF turnos >= LIMITE_SIN_CAPTURA THEN [res |-> 0, fin |-> TRUE]
    ELSE [res |-> None, fin |-> FALSE]

\* __calcula_ganador with the draw rule tested before the other rules
CalculaGanador_tablas_primero(t, turnos) ==
    IF turnos >= LIMITE_SIN_CAPTURA THEN [res |-> 0, fin |-> TRUE]
    ELSE IF ~HayPieza(t, REY) THEN [res |-> 0 - 1, fin |-> TRUE]
    ELSE IF ~HayPieza(t, 0 - REY) THEN [res |-> 1, fin |-> TRUE]
    ELSE IF Len(CalcularMovimientosValidos(t, 1)) = 0
    THEN [res |-> 0 - 1, fin |-> TRUE]
    ELSE IF Len(CalcularMovimientosValidos(t, 0 - 1)) = 0
    THEN [res |-> 1, fin |-> TRUE]
    ELSE [res |-> None, fin |-> FALSE]

\* __calcula_ganador without the two king tests
CalculaGanador_sin_reyes(t, turnos) ==
    IF Len(CalcularMovimientosValidos(t, 1)) = 0
    THEN [res |-> 0 - 1, fin |-> TRUE]
    ELSE IF Len(CalcularMovimientosValidos(t, 0 - 1)) = 0
    THEN [res |-> 1, fin |-> TRUE]
    ELSE IF turnos >= LIMITE_SIN_CAPTURA THEN [res |-> 0, fin |-> TRUE]
    ELSE [res |-> None, fin |-> FALSE]

\* __calcula_ganador giving the win to the side whose king is missing
CalculaGanador_invertido(t, turnos) ==
    IF ~HayPieza(t, REY) THEN [res |-> 1, fin |-> TRUE]
    ELSE IF ~HayPieza(t, 0 - REY) THEN [res |-> 0 - 1, fin |-> TRUE]
    ELSE IF Len(CalcularMovimientosValidos(t, 1)) = 0
    THEN [res |-> 0 - 1, fin |-> TRUE]
    ELSE IF Len(CalcularMovimientosValidos(t, 0 - 1)) = 0
    THEN [res |-> 1, fin |-> TRUE]
    ELSE IF turnos >= LIMITE_SIN_CAPTURA THEN [res |-> 0, fin |-> TRUE]
    ELSE [res |-> None, fin |-> FALSE]

\* __calcula_ganador without the draw rule
CalculaGanador_sin_tablas(t, turnos) ==
    IF ~HayPieza(t, REY) THEN [res |-> 0 - 1, fin |-> TRUE]
    ELSE IF ~HayPieza(t, 0 - REY) THEN [res |-> 1, fin |-> TRUE]
    ELSE IF Len(CalcularMovimientosValidos(t, 1)) = 0
    THEN [res |-> 0 - 1, fin |-> TRUE]
    ELSE IF Len(CalcularMovimientosValidos(t, 0 - 1)) = 0
    THEN [res |-> 1, fin |-> TRUE]
    ELSE [res |-> None, fin |-> FALSE]

\* __calcula_ganador: the value returned and the value left in _fin
CalculaGanador(t, turnos) ==
    LET rey_j1_existe == HayPieza(t, REY)
        rey_j2_existe == HayPieza(t, 0 - REY)
    IN  IF ~rey_j1_existe THEN [res |-> 0 - 1, fin |-> TRUE]
        ELSE IF ~rey_j2_existe THEN [res |-> 1, fin |-> TRUE]
        ELSE IF Len(CalcularMovimientosValidos(t, 1)) = 0
        THEN [res |-> 0 - 1, fin |-> TRUE]
        ELSE IF Len(CalcularMovimientosValidos(t, 0 - 1)) = 0
        THEN [res |-> 1, fin |-> TRUE]
        ELSE IF turnos >= LIMITE_SIN_CAPTURA THEN [res |-> 0, fin |-> TRUE]
        ELSE [res |-> None, fin |-> FALSE]

\* the board assignments of __actualiza_estado and of the simulation in
\* decide_accion: destination first, then origin
MuevePieza(t, movimiento) ==
    LET origen == movimiento[1]
        destino == movimiento[2]
        pieza == t[origen]
        t1 == [t EXCEPT ![destino] = pieza]
    IN  [t1 EXCEPT ![origen] = 0]

\* __actualiza_estado with the counter reset by every move
ActualizaEstado_sin_incremento(t, turnos, siguiente, movimiento) ==
    [tablero |-> MuevePieza(t, movimiento),
     turnos |-> 0,
     siguiente |-> IF siguiente = 1 THEN 0 - 1 ELSE 1,
     estado |-> SerializaEstado(MuevePieza(t, movimiento), N_FILAS, N_COLS)]

\* __actualiza_estado that leaves the side to move as it was
ActualizaEstado_sin_cambio_de_turno(t, turnos, siguiente, movimiento) ==
    [tablero |-> MuevePieza(t, movimiento),
     turnos |-> IF t[movimiento[2]] # 0 THEN 0 ELSE turnos + 1,
     siguiente |-> siguiente,
     estado |-> SerializaEstado(MuevePieza(t, movimiento), N_FILAS, N_COLS)]

\* __actualiza_estado counting only the quiet moves of jugador 1
ActualizaEstado_solo_jugador1(t, turnos, siguiente, movimiento) ==
    [tablero |-> MuevePieza(t, movimiento),
     turnos |-> IF t[movimiento[2]] # 0 THEN 0
                ELSE IF siguiente = 1 THEN turnos + 1 ELSE turnos,
     siguiente |-> IF siguiente = 1 THEN 0 - 1 ELSE 1,
     estado |-> SerializaEstado(MuevePieza(t, movimiento), N_FILAS, N_COLS)]

\* __actualiza_estado
ActualizaEstado(t, turnos, siguiente, movimiento) ==
    LET pieza_capturada == t[movimiento[2]]
        nuevo == MuevePieza(t, movimiento)
    IN  [tablero |-> nuevo,
         turnos |-> IF pieza_capturada # 0 THEN 0 ELSE turnos + 1,
         siguiente |-> IF siguiente = 1 THEN 0 - 1 ELSE 1,
         estado |-> SerializaEstado(nuevo, N_FILAS, N_COLS)]

\* ------------------------------------------------------------------------
\* Learning agent
\* ------------------------------------------------------------------------
TablaVacia == [s \in {} |-> 0]

\* dict.get(s, 0)
Valor(exp, s) == IF s \in DOMAIN exp THEN exp[s] ELSE 0

\* dict[s] = v
Guarda(exp, s, v) == [k \in (DOMAIN exp) \cup {s} |-> IF k = s THEN v ELSE exp[k]]

\* x * (f[1] / f[2]) rounded to the nearest unit
MulFrac(x, f) == (2 * x * f[1] + f[2]) \div (2 * f[2])

\* np.random.uniform(0, 1) <= tasa for the draw zu / GRANO
Explora(zu, tasa) == zu * tasa[2] <= tasa[1] * GRANO

\* np.random.choice(n) for the draw zc / GRANO
Choice(n, zc) == (zc * n) \div GRANO

\* the loop of decide_accion over movimientos_validos[k..]
RECURSIVE MejoresDesde(_, _, _, _, _, _)
MejoresDesde(movs, t, exp, k, valor_max, mejores) ==
    IF k > Len(movs) THEN mejores
    ELSE LET siguiente_tablero == MuevePieza(t, movs[k])
             valor == Valor(exp, SerializaEstado(siguiente_tablero, N_FILAS, N_COLS))
         IN  IF valor > valor_max
             THEN MejoresDesde(movs, t, exp, k + 1, valor, <<movs[k]>>)
             ELSE IF valor = valor_max
             THEN MejoresDesde(movs, t, exp, k + 1, valor_max, Append(mejores, movs[k]))
             ELSE MejoresDesde(movs, t, exp, k + 1, valor_max, mejores)

MejoresMovimientos(movs, t, exp) == MejoresDesde(movs, t, exp, 1, MENOS_INF, << >>)

\* JugadorMiniChessMaq.decide_accion
DecideAccionMaq(movs, t, token, exp, tasa, sorteo) ==
    IF Explora(sorteo.u, tasa)
    THEN movs[Choice(Len(movs), sorteo.c) + 1]
    ELSE LET mejores_movimientos == MejoresMovimientos(movs, t, exp)
         IN  mejores_movimientos[Choice(Len(mejores_movimientos), sorteo.c) + 1]

\* JugadorMiniChessHum.decide_accion: the index typed in selects the move
DecideAccionHum(movs, t, token, sorteo) == movs[Choice(Len(movs), sorteo.c) + 1]

\* decide_accion trying the moves on the caller's board instead of a copy
EfectoDecideAccion_sin_copia(movs, t, token, exp, tasa, sorteo) ==
    [accion  |-> DecideAccionMaq(movs, t, token, exp, tasa, sorteo),
     tablero |-> IF Explora(sorteo.u, tasa) THEN t ELSE MuevePieza(t, movs[1]),
     exp     |-> exp]

\* what one call of JugadorMiniChessMaq.decide_accion leaves behind: the move
\* returned, the caller's board (each move is tried on tablero.copy()) and the
\* agent's table (dict.get with a default inserts no key)
EfectoDecideAccion(movs, t, token, exp, tasa, sorteo) ==
    [accion  |-> DecideAccionMaq(movs, t, token, exp, tasa, sorteo),
     tablero |-> t,
     exp     |-> exp]

\* guarda_estado putting the state in front of the trace
GuardaEstado_al_principio(estados, s) == <<s>> \o estados

\* JugadorMiniChessMaq.guarda_estado: the trace after the call
GuardaEstado(estados, s) == Append(estados, s)

\* the type test that treats every jugador 2 as a learning agent
EsMaq_siempre(tipo) == tipo \in {"Maq", "Hum"}

\* type(self._jugador2) == JugadorMiniChessMaq
EsMaq(tipo) == tipo = "Maq"

\* the loop of retropropaga_recompensa discounting the value before the update
RECURSIVE RetropropagaDesde_valor_previo(_, _, _, _)
RetropropagaDesde_valor_previo(exp, estados, i, recompensa_actual) ==
    IF i < 1 THEN exp
    ELSE LET s == estados[i]
             valor_s == Valor(exp, s)
             nuevo_valor == valor_s + MulFrac(recompensa_actual - valor_s, TASA_APRENDIZAJE)
         IN  RetropropagaDesde_valor_previo(Guarda(exp, s, nuevo_valor), estados, i - 1,
                                            MulFrac(valor_s, DESCUENTO_GAMMA))

\* the loop of retropropaga_recompensa from index i down to 1
RECURSIVE RetropropagaDesde(_, _, _, _)
RetropropagaDesde(exp, estados, i, recompensa_actual) ==
    IF i < 1 THEN exp
    ELSE LET s == estados[i]
             valor_s == Valor(exp, s)
             nuevo_valor == valor_s + MulFrac(recompensa_actual - valor_s, TASA_APRENDIZAJE)
         IN  RetropropagaDesde(Guarda(exp, s, nuevo_valor), estados, i - 1,
                               MulFrac(nuevo_valor, DESCUENTO_GAMMA))

\* JugadorMiniChessMaq.retropropaga_recompensa
RetropropagaRecompensa(exp, estados, recompensa) ==
    RetropropagaDesde(exp, estados, Len(estados), recompensa)

\* JugadorMiniChess.reset
ResetJugador(estados) == << >>

\* __recompensa with the rewards of the two winning branches exchanged
Recompensas_cruzadas(resultado) ==
    IF resultado = 1 THEN <<0, ESCALA>>
    ELSE IF resultado = 0 - 1 THEN <<ESCALA, 0>>
    ELSE <<ESCALA \div 2, ESCALA \div 2>>

\* the rewards of __recompensa for jugador 1 and jugador 2
Recompensas(resultado) ==
    IF resultado = 1 THEN <<ESCALA, 0>>
    ELSE IF resultado = 0 - 1 THEN <<0, ESCALA>>
    ELSE <<ESCALA \div 2, ESCALA \div 2>>

\* ------------------------------------------------------------------------
\* Random generator
\* ------------------------------------------------------------------------
Sorteos(libre) ==
    IF libre THEN [u : 0 .. GRANO - 1, c : 0 .. GRANO - 1]
    ELSE {[u |-> GRANO - 1, c |-> GRANO - 1]}

SinSorteo == [u |-> 0, c |-> 0]

SinAccion == << >>

\* ------------------------------------------------------------------------
\* Training run: fit and jugar
\* ------------------------------------------------------------------------
\* JuegoMiniChess.__init__ with two freshly constructed agents
InitJuego(tipo2) ==
    /\ tablero = InicializarTablero
    /\ fin = FALSE
    /\ estado = EstadoNone
    /\ siguiente_jugador = 1
    /\ turnos_sin_captura = 0
    /\ estados_juego_actual = [p \in 1 .. 2 |-> << >>]
    /\ experiencia_estado_valor = [p \in 1 .. 2 |-> TablaVacia]
    /\ tasa_exploracion = [p \in 1 .. 2 |-> TASA_EXPLORACION]
    /\ tipo_jugador2 = tipo2
    /\ pc = "inicio"
    /\ ronda = 0
    /\ ganador = None
    /\ accion = SinAccion
    /\ azar = SinSorteo
    /\ libres = MaxLibres
    /\ n_mov = 0
    /\ llamadas = << >>
    /\ recompensa_final = 0
    /\ exp_antes = TablaVacia

Init == InitJuego("Maq")

\* the session built with a human jugador 2
InitHum == InitJuego("Hum")

\* fit: the next call of jugar
Jugar ==
    /\ pc \in {"inicio", "retorno"}
    /\ ronda < MaxRondas
    /\ ronda' = ronda + 1
    /\ pc' = "bucle"
    /\ n_mov' = 0
    /\ llamadas' = << >>
    /\ UNCHANGED <<tablero, fin, estado, siguiente_jugador, turnos_sin_captura,
                   estados_juego_actual, experiencia_estado_valor,
                   tasa_exploracion, tipo_jugador2, ganador, accion, azar,
                   libres, recompensa_final, exp_antes>>

\* the loop is left without a move: _fin is set, or the side has no move
SaleDelBucle ==
    /\ pc' = "final"
    /\ UNCHANGED <<tablero, fin, estado, siguiente_jugador, turnos_sin_captura,
                   estados_juego_actual, experiencia_estado_valor,
                   tasa_exploracion, tipo_jugador2, ronda, ganador, accion,
                   azar, libres, n_mov, llamadas, recompensa_final, exp_antes>>

\* the iteration that leaves the loop after every move
Mueve_sale_siempre(p, movimiento, guarda) ==
    LET nuevo == ActualizaEstado(tablero, turnos_sin_captura, siguiente_jugador, movimiento)
        cg == CalculaGanador(nuevo.tablero, nuevo.turnos)
    IN  /\ accion' = movimiento
        /\ tablero' = nuevo.tablero
        /\ turnos_sin_captura' = nuevo.turnos
        /\ siguiente_jugador' = nuevo.siguiente
        /\ estado' = nuevo.estado
        /\ estados_juego_actual' =
               IF guarda
               THEN [estados_juego_actual EXCEPT ![p] = GuardaEstado(@, nuevo.estado)]
               ELSE estados_juego_actual
        /\ fin' = cg.fin
        /\ ganador' = cg.res
        /\ pc' = "final"
        /\ n_mov' = n_mov + 1
        /\ libres' = IF libres > 0 THEN libres - 1 ELSE 0
        /\ UNCHANGED <<experiencia_estado_valor, tasa_exploracion, tipo_jugador2,
                       ronda, azar, llamadas, recompensa_final, exp_antes>>

\* one iteration of the loop of jugar for the agent p with the move it chose
Mueve(p, movimiento, guarda) ==
    LET nuevo == ActualizaEstado(tablero, turnos_sin_captura, siguiente_jugador, movimiento)
        cg == CalculaGanador(nuevo.tablero, nuevo.turnos)
    IN  /\ accion' = movimiento
        /\ tablero' = nuevo.tablero
        /\ turnos_sin_captura' = nuevo.turnos
        /\ siguiente_jugador' = nuevo.siguiente
        /\ estado' = nuevo.estado
        /\ estados_juego_actual' =
               IF guarda
               THEN [estados_juego_actual EXCEPT ![p] = GuardaEstado(@, nuevo.estado)]
               ELSE estados_juego_actual
        /\ fin' = cg.fin
        /\ ganador' = cg.res
        /\ pc' = IF cg.res # None THEN "final" ELSE "bucle"
        /\ n_mov' = n_mov + 1
        /\ libres' = IF libres > 0 THEN libres - 1 ELSE 0
        /\ UNCHANGED <<experiencia_estado_valor, tasa_exploracion, tipo_jugador2,
                       ronda, azar, llamadas, recompensa_final, exp_antes>>

\* jugar, turn of jugador 1
TurnoJugador1 ==
    /\ pc = "bucle"
    /\ siguiente_jugador = 1
    /\ LET movimientos_validos == CalcularMovimientosValidos(tablero, siguiente_jugador)
       IN  IF fin \/ Len(movimientos_validos) = 0
           THEN SaleDelBucle
           ELSE \E sorteo \in Sorteos(libres > 0) :
                    Mueve(1, DecideAccionMaq(movimientos_validos, tablero,
                                             siguiente_jugador,
                                             experiencia_estado_valor[1],
                                             tasa_exploracion[1], sorteo),
                          TRUE)

\* jugar, turn of jugador 2
TurnoJugador2 ==
    /\ pc = "bucle"
    /\ siguiente_jugador # 1
    /\ LET movimientos_validos == CalcularMovimientosValidos(tablero, siguiente_jugador)
       IN  IF fin \/ Len(movimientos_validos) = 0
           THEN SaleDelBucle
           ELSE \E sorteo \in Sorteos(libres > 0) :
                    Mueve(2, IF EsMaq(tipo_jugador2)
                             THEN DecideAccionMaq(movimientos_validos, tablero,
                                                  siguiente_jugador,
                                                  experiencia_estado_valor[2],
                                                  tasa_exploracion[2], sorteo)
                             ELSE DecideAccionHum(movimientos_validos, tablero,
                                                  siguiente_jugador, sorteo),
                          EsMaq(tipo_jugador2))

\* the end of jugar with the agents reset before the rewards are given
Recompensa_tras_reset ==
    /\ pc = "final"
    /\ LET cg == CalculaGanador(tablero, turnos_sin_captura)
           r == Recompensas(cg.res)
           maq2 == EsMaq(tipo_jugador2)
       IN  /\ fin' = cg.fin
           /\ ganador' = cg.res
           /\ exp_antes' = experiencia_estado_valor[1]
           /\ estados_juego_actual' =
                  [p \in 1 .. 2 |-> ResetJugador(estados_juego_actual[p])]
           /\ experiencia_estado_valor' =
                  [p \in 1 .. 2 |->
                      IF p = 1 \/ maq2
                      THEN RetropropagaRecompensa(
                               experiencia_estado_valor[p],
                               ResetJugador(estados_juego_actual[p]), r[p])
                      ELSE experiencia_estado_valor[p]]
           /\ llamadas' = llamadas \o << <<1, r[1]>> >>
                          \o (IF maq2 THEN << <<2, r[2]>> >> ELSE << >>)
    /\ pc' = "reset"
    /\ UNCHANGED <<tablero, estado, siguiente_jugador, turnos_sin_captura,
                   tasa_exploracion, tipo_jugador2, ronda,
                   accion, azar, libres, n_mov, recompensa_final>>

\* jugar after the loop: the final evaluation and __recompensa
Recompensa ==
    /\ pc = "final"
    /\ LET cg == CalculaGanador(tablero, turnos_sin_captura)
           r == Recompensas(cg.res)
           maq2 == EsMaq(tipo_jugador2)
       IN  /\ fin' = cg.fin
           /\ ganador' = cg.res
           /\ exp_antes' = experiencia_estado_valor[1]
           /\ experiencia_estado_valor' =
                  [p \in 1 .. 2 |->
                      IF p = 1 \/ maq2
                      THEN RetropropagaRecompensa(experiencia_estado_valor[p],
                                                  estados_juego_actual[p], r[p])
                      ELSE experiencia_estado_valor[p]]
           /\ llamadas' = llamadas \o << <<1, r[1]>> >>
                          \o (IF maq2 THEN << <<2, r[2]>> >> ELSE << >>)
    /\ pc' = "reset"
    /\ UNCHANGED <<tablero, estado, siguiente_jugador, turnos_sin_captura,
                   estados_juego_actual, tasa_exploracion, tipo_jugador2, ronda,
                   accion, azar, libres, n_mov, recompensa_final>>

\* __reset that forgets the no-capture counter
ResetJuego_sin_contador ==
    [tablero |-> InicializarTablero, estado |-> EstadoNone, fin |-> FALSE,
     siguiente |-> 1, turnos |-> turnos_sin_captura]

\* JuegoMiniChess.__reset: the session fields after it
ResetJuego ==
    [tablero |-> InicializarTablero, estado |-> EstadoNone, fin |-> FALSE,
     siguiente |-> 1, turnos |-> 0]

\* the resets of jugar with an agent reset that also empties the value table
Reset_borra_tabla ==
    /\ pc = "reset"
    /\ estados_juego_actual' = [p \in 1 .. 2 |-> ResetJugador(estados_juego_actual[p])]
    /\ experiencia_estado_valor' = [p \in 1 .. 2 |-> TablaVacia]
    /\ tablero' = ResetJuego.tablero
    /\ estado' = ResetJuego.estado
    /\ fin' = ResetJuego.fin
    /\ siguiente_jugador' = ResetJuego.siguiente
    /\ turnos_sin_captura' = ResetJuego.turnos
    /\ pc' = "retorno"
    /\ UNCHANGED <<tasa_exploracion, tipo_jugador2,
                   ronda, ganador, accion, azar, libres, n_mov, llamadas,
                   recompensa_final, exp_antes>>

\* jugar, the resets of both agents and of the session; jugar returns
Reset ==
    /\ pc = "reset"
    /\ estados_juego_actual' = [p \in 1 .. 2 |-> ResetJugador(estados_juego_actual[p])]
    /\ tablero' = ResetJuego.tablero
    /\ estado' = ResetJuego.estado
    /\ fin' = ResetJuego.fin
    /\ siguiente_jugador' = ResetJuego.siguiente
    /\ turnos_sin_captura' = ResetJuego.turnos
    /\ pc' = "retorno"
    /\ UNCHANGED <<experiencia_estado_valor, tasa_exploracion, tipo_jugador2,
                   ronda, ganador, accion, azar, libres, n_mov, llamadas,
                   recompensa_final, exp_antes>>

Next == Jugar \/ TurnoJugador1 \/ TurnoJugador2 \/ Recompensa \/ Reset

Spec == Init /\ [][Next]_vars

\* play of the learning agent against a human jugador 2
SpecHum == InitHum /\ [][Next]_vars

\* ------------------------------------------------------------------------
\* Properties of an episode
\* ------------------------------------------------------------------------
NumPiezas(t) == Cardinality({c \in Casillas : t[c] # 0})

\* captures made so far in the episode
Capturas == NumPiezas(InicializarTablero) - NumPiezas(tablero)

AmbosReyes == HayPieza(tablero, REY) /\ HayPieza(tablero, 0 - REY)

EnPartida == pc \in {"bucle", "final", "reset"}

\* C1: an episode applies at most 250 moves, whatever the agents choose: the
\* counter never passes 50, every capture closes a run of at most 50 moves,
\* and at most 4 captures leave both kings on the board; so the loop, which
\* applies a move or exits in each iteration, is left after at most
\* (4 + 1) * 50 applied moves.
C1_EpisodioAcotado ==
    EnPartida =>
        /\ turnos_sin_captura <= LIMITE_SIN_CAPTURA
        /\ n_mov <= LIMITE_SIN_CAPTURA * Capturas + turnos_sin_captura
        /\ (AmbosReyes => Capturas <= 4)
        /\ (~AmbosReyes => Capturas <= 5 /\ turnos_sin_captura = 0)
        /\ n_mov <= 250
        /\ (pc = "bucle" /\ n_mov > 0 => ~fin /\ ganador = None)

\* an episode drawn by the 50-move rule after at least one capture
C1_Testigo ==
    pc = "final" /\ ganador = 0 /\ n_mov > LIMITE_SIN_CAPTURA /\ Capturas > 0

\* C4: once the no-capture counter is 50 with both kings on the board, the
\* evaluation made after that move returned DRAW, the terminal flag is set
\* and the loop has been left, so no further move is applied.
C4_TablasALos50 ==
    (EnPartida /\ turnos_sin_captura = LIMITE_SIN_CAPTURA /\ AmbosReyes) =>
        (ganador = 0 /\ fin /\ pc # "bucle")

C4_Testigo ==
    pc = "final" /\ turnos_sin_captura = LIMITE_SIN_CAPTURA /\ AmbosReyes
    /\ ganador = 0 /\ n_mov = LIMITE_SIN_CAPTURA

\* C6: when the rewards of an episode have been given, each of the two
\* learning agents got exactly one call, jugador 1 first, with 1.0 / 0.0
\* for A_WINS, 0.0 / 1.0 for B_WINS and 0.5 / 0.5 for DRAW.
C6_RecompensaPorResultado ==
    (pc \in {"reset", "retorno"} /\ tipo_jugador2 = "Maq") =>
        /\ ganador \in {1, 0 - 1, 0}
        /\ Len(llamadas) = 2
        /\ llamadas[1] = <<1, IF ganador = 1 THEN ESCALA
                              ELSE IF ganador = 0 THEN ESCALA \div 2 ELSE 0>>
        /\ llamadas[2] = <<2, IF ganador = 0 - 1 THEN ESCALA
                              ELSE IF ganador = 0 THEN ESCALA \div 2 ELSE 0>>

C6_Testigo ==
    pc = "reset" /\ ganador = 0 - 1 /\ llamadas = << <<1, 0>>, <<2, ESCALA>> >>

\* C7: when jugar has returned the session is in its initial state and both
\* episode traces are empty.
C7_TrasLaPartida ==
    pc = "retorno" =>
        /\ tablero = InicializarTablero
        /\ siguiente_jugador = 1
        /\ turnos_sin_captura = 0
        /\ fin = FALSE
        /\ estados_juego_actual = [p \in 1 .. 2 |-> << >>]

\* jugar has returned from an episode that ended in a draw at counter 50
C7_Testigo == pc = "retorno" /\ ganador = 0 /\ n_mov >= LIMITE_SIN_CAPTURA

\* C8: the resets and the start of the next episode leave both value tables
\* as reward propagation wrote them, and an episode starts with every other
\* field of the session and of the agents as after construction.
C8_SoloLaTablaPersiste ==
    [][ /\ (pc \in {"reset", "retorno", "inicio"} =>
                experiencia_estado_valor' = experiencia_estado_valor)
        /\ (pc \in {"retorno", "inicio"} /\ pc' = "bucle" =>
                /\ tablero' = InicializarTablero
                /\ estado' = EstadoNone
                /\ fin' = FALSE
                /\ siguiente_jugador' = 1
                /\ turnos_sin_captura' = 0
                /\ estados_juego_actual' = [p \in 1 .. 2 |-> << >>]
                /\ tasa_exploracion' = [p \in 1 .. 2 |-> TASA_EXPLORACION]) ]_vars

\* the second episode starts with what the first one taught both agents
C8_Testigo ==
    /\ pc = "bucle" /\ ronda = 2 /\ n_mov = 0
    /\ DOMAIN experiencia_estado_valor[1] # {}
    /\ DOMAIN experiencia_estado_valor[2] # {}

\* ------------------------------------------------------------------------
\* Terminal evaluation of injected sessions
\* ------------------------------------------------------------------------
\* boards built in the two corners where a side can be left without a move
TablerosInyectados ==
    {[c \in Casillas |->
        CASE c = <<0, 0>> -> a0
          [] c = <<0, 1>> -> a1
          [] c = <<1, 0>> -> a2
          [] c = <<1, 1>> -> a3
          [] c = <<3, 3>> -> b0
          [] c = <<3, 2>> -> b1
          [] c = <<2, 3>> -> b2
          [] c = <<2, 2>> -> b3
          [] OTHER -> 0] :
        a0 \in {0, 0 - REY}, a1 \in {0, 0 - PEON, REY}, a2 \in {0, 0 - PEON},
        a3 \in {0, 0 - PEON, TORRE},
        b0 \in {0, REY}, b1 \in {0, PEON, 0 - REY}, b2 \in {0, PEON},
        b3 \in {0, PEON, 0 - TORRE}}

ContadoresInyectados ==
    {0, LIMITE_SIN_CAPTURA - 1, LIMITE_SIN_CAPTURA, LIMITE_SIN_CAPTURA + 1}

InitEval ==
    /\ tablero \in TablerosInyectados
    /\ siguiente_jugador \in {1, 0 - 1}
    /\ turnos_sin_captura \in ContadoresInyectados
    /\ fin = FALSE
    /\ estado = EstadoNone
    /\ estados_juego_actual = [p \in 1 .. 2 |-> << >>]
    /\ experiencia_estado_valor = [p \in 1 .. 2 |-> TablaVacia]
    /\ tasa_exploracion = [p \in 1 .. 2 |-> TASA_EXPLORACION]
    /\ tipo_jugador2 = "Maq"
    /\ pc = "evalua"
    /\ ronda = 0
    /\ ganador = None
    /\ accion = SinAccion
    /\ azar = SinSorteo
    /\ libres = 0
    /\ n_mov = 0
    /\ llamadas = << >>
    /\ recompensa_final = 0
    /\ exp_antes = TablaVacia

\* one call of __calcula_ganador
Evalua ==
    /\ pc = "evalua"
    /\ LET cg == CalculaGanador(tablero, turnos_sin_captura)
       IN  /\ fin' = cg.fin
           /\ ganador' = cg.res
    /\ pc' = "evaluado"
    /\ UNCHANGED <<tablero, estado, siguiente_jugador, turnos_sin_captura,
                   estados_juego_actual, experiencia_estado_valor,
                   tasa_exploracion, tipo_jugador2, ronda, accion, azar, libres,
                   n_mov, llamadas, recompensa_final, exp_antes>>

NextEval == Evalua

SpecEval == InitEval /\ [][NextEval]_vars

SinMovimientos(jugador) == Len(CalcularMovimientosValidos(tablero, jugador)) = 0

\* C2 as stated: every evaluated board without the king of side B gives
\* A_WINS, also when the king of side A is missing too.
C2_SinReyB_Original ==
    (pc = "evaluado" /\ ~HayPieza(tablero, 0 - REY)) => ganador = 1

\* C2 amended: an evaluated board without the king of side B gives A_WINS
\* when the king of side A is on it and B_WINS when it is not, whatever the
\* other cells, the side to move and the counter.
C2_SinReyB ==
    (pc = "evaluado" /\ ~HayPieza(tablero, 0 - REY)) =>
        /\ fin
        /\ ganador = IF HayPieza(tablero, REY) THEN 1 ELSE 0 - 1

\* side B to move at counter 50 on a board with only the king of side A
C2_Testigo ==
    /\ pc = "evaluado" /\ ~HayPieza(tablero, 0 - REY) /\ HayPieza(tablero, REY)
    /\ siguiente_jugador = 0 - 1 /\ turnos_sin_captura = LIMITE_SIN_CAPTURA
    /\ ganador = 1

\* C3 as stated: with both kings on the board the side to move loses when it
\* has no legal move, and otherwise the result is the draw at counter >= 50
\* or not terminal, whatever the moves of the side that is not to move.
C3_SoloElQueMueve ==
    (pc = "evaluado" /\ AmbosReyes) =>
        IF SinMovimientos(siguiente_jugador)
        THEN ganador = 0 - siguiente_jugador
        ELSE ganador = IF turnos_sin_captura >= LIMITE_SIN_CAPTURA THEN 0 ELSE None

\* C5: a missing king decides the result for the opponent of a missing king
\* and a side without a legal move decides it for the other side, in both
\* cases also at a counter of 50 or more: the draw is only returned when
\* both kings stand and both sides can move.
C5_Precedencia ==
    pc = "evaluado" =>
        /\ (~AmbosReyes =>
               \/ ganador = 0 - 1 /\ ~HayPieza(tablero, REY)
               \/ ganador = 1 /\ ~HayPieza(tablero, 0 - REY))
        /\ (AmbosReyes /\ (SinMovimientos(1) \/ SinMovimientos(0 - 1)) =>
               ganador \in {1, 0 - 1})
        /\ (AmbosReyes /\ SinMovimientos(siguiente_jugador)
               /\ ~SinMovimientos(0 - siguiente_jugador) =>
               ganador = 0 - siguiente_jugador)
        /\ (ganador = 0 =>
               AmbosReyes /\ ~SinMovimientos(1) /\ ~SinMovimientos(0 - 1))

\* both kings stand, the side to move is blocked and the counter is past 50
C5_Testigo ==
    /\ pc = "evaluado" /\ AmbosReyes /\ SinMovimientos(siguiente_jugador)
    /\ turnos_sin_captura > LIMITE_SIN_CAPTURA /\ ganador = 0 - siguiente_jugador

\* ------------------------------------------------------------------------
\* Reward propagation over injected traces
\* ------------------------------------------------------------------------
Rango(f) == {f[i] : i \in DOMAIN f}

Clave(t) == SerializaEstado(t, N_FILAS, N_COLS)

\* the boards after the first move of jugador 1
TablerosTrasUnMovimiento ==
    {MuevePieza(InicializarTablero, m) :
        m \in Rango(CalcularMovimientosValidos(InicializarTablero, 1))}

ClavesInyectadas == {Clave(t) : t \in TablerosTrasUnMovimiento}

TrazasInyectadas == UNION {[1 .. n -> ClavesInyectadas] : n \in 0 .. MaxTraza}

TablasInyectadas ==
    {TablaVacia}
    \cup {[k \in {Clave(InicializarTablero), c} |->
              IF k = c THEN ESCALA \div 2 ELSE ESCALA] : c \in ClavesInyectadas}

InitRetro ==
    /\ tablero = InicializarTablero
    /\ siguiente_jugador = 1
    /\ turnos_sin_captura = 0
    /\ fin = FALSE
    /\ estado = EstadoNone
    /\ \E e \in TrazasInyectadas : estados_juego_actual = <<e, << >> >>
    /\ \E V \in TablasInyectadas : experiencia_estado_valor = <<V, TablaVacia>>
    /\ tasa_exploracion = [p \in 1 .. 2 |-> TASA_EXPLORACION]
    /\ tipo_jugador2 = "Maq"
    /\ pc = "propaga"
    /\ ronda = 0
    /\ ganador = None
    /\ accion = SinAccion
    /\ azar = SinSorteo
    /\ libres = 0
    /\ n_mov = 0
    /\ llamadas = << >>
    /\ recompensa_final \in {0, ESCALA \div 2, ESCALA}
    /\ exp_antes = TablaVacia

\* one call of retropropaga_recompensa on jugador 1
Retropropaga ==
    /\ pc = "propaga"
    /\ exp_antes' = experiencia_estado_valor[1]
    /\ experiencia_estado_valor' =
           [experiencia_estado_valor EXCEPT
               ![1] = RetropropagaRecompensa(@, estados_juego_actual[1],
                                             recompensa_final)]
    /\ llamadas' = Append(llamadas, <<1, recompensa_final>>)
    /\ pc' = "propagado"
    /\ UNCHANGED <<tablero, fin, estado, siguiente_jugador, turnos_sin_captura,
                   estados_juego_actual, tasa_exploracion, tipo_jugador2, ronda,
                   ganador, accion, azar, libres, n_mov, recompensa_final>>

NextRetro == Retropropaga

SpecRetro == InitRetro /\ [][NextRetro]_vars

SinRepetidos(e) == \A i, j \in DOMAIN e : e[i] = e[j] => i = j

\* C9: after a propagation the table holds exactly the old keys and the keys
\* of the trace; keys outside the trace keep their value; over a trace
\* without repeated states the last state got V + alpha * (r - V) and every
\* earlier one V + alpha * (gamma * V'(next) - V), V' being the new value of
\* the state after it; three unseen states and r = 1.0 give 0.2, 0.036 and
\* 0.00648 from the latest to the earliest.
C9_Retropropagacion ==
    pc = "propagado" =>
        LET e == estados_juego_actual[1]
            n == Len(e)
            V == exp_antes
            W == experiencia_estado_valor[1]
        IN  /\ DOMAIN W = (DOMAIN V) \cup Rango(e)
            /\ \A k \in (DOMAIN V) \ Rango(e) : W[k] = V[k]
            /\ SinRepetidos(e) =>
                   \A i \in 1 .. n :
                       LET objetivo == IF i = n THEN recompensa_final
                                       ELSE MulFrac(W[e[i + 1]], DESCUENTO_GAMMA)
                       IN  W[e[i]] = Valor(V, e[i])
                                     + MulFrac(objetivo - Valor(V, e[i]), TASA_APRENDIZAJE)
            /\ (n = 3 /\ SinRepetidos(e) /\ Rango(e) \cap DOMAIN V = {}
                    /\ recompensa_final = ESCALA) =>
                   /\ W[e[3]] = 2 * (ESCALA \div 10)
                   /\ W[e[2]] = 36 * (ESCALA \div 1000)
                   /\ W[e[1]] = 648 * (ESCALA \div 100000)

\* three distinct unseen states propagated with reward 1.0 into a table that
\* already holds another state
C9_Testigo ==
    /\ pc = "propagado" /\ Len(estados_juego_actual[1]) = 3
    /\ SinRepetidos(estados_juego_actual[1])
    /\ Rango(estados_juego_actual[1]) \cap DOMAIN exp_antes = {}
    /\ DOMAIN exp_antes # {}
    /\ recompensa_final = ESCALA
    /\ experiencia_estado_valor[1][estados_juego_actual[1][1]] = 648 * (ESCALA \div 100000)

\* ------------------------------------------------------------------------
\* decide_accion on injected boards and tables
\* ------------------------------------------------------------------------
TablerosDecide == {InicializarTablero} \cup TablerosTrasUnMovimiento

\* the keys of the boards one move of jugador away from t
ClavesSucesoras(t, jugador) ==
    {Clave(MuevePieza(t, m)) : m \in Rango(CalcularMovimientosValidos(t, jugador))}

\* no entry, one successor known, or all known with one of them valued most
TablasDecide(t, jugador) ==
    {TablaVacia}
    \cup {[k \in {s} |-> ESCALA \div 2] : s \in ClavesSucesoras(t, jugador)}
    \cup {[k \in ClavesSucesoras(t, jugador) |->
              IF k = s THEN ESCALA ELSE ESCALA \div 5] :
              s \in ClavesSucesoras(t, jugador)}

TasasInyectadas == {<<0, 1>>, TASA_EXPLORACION, <<1, 1>>}

InitDecide ==
    /\ tablero \in TablerosDecide
    /\ siguiente_jugador \in {1, 0 - 1}
    /\ turnos_sin_captura = 0
    /\ fin = FALSE
    /\ estado = EstadoNone
    /\ estados_juego_actual = [p \in 1 .. 2 |-> << >>]
    /\ \E V \in TablasDecide(tablero, siguiente_jugador) :
           experiencia_estado_valor = <<V, TablaVacia>>
    /\ \E tasa \in TasasInyectadas : tasa_exploracion = <<tasa, TASA_EXPLORACION>>
    /\ tipo_jugador2 = "Maq"
    /\ pc = "decide"
    /\ ronda = 0
    /\ ganador = None
    /\ accion = SinAccion
    /\ azar = SinSorteo
    /\ libres = 0
    /\ n_mov = 0
    /\ llamadas = << >>
    /\ recompensa_final = 0
    /\ exp_antes = TablaVacia

\* one call of decide_accion on the learning agent 1 for the side to move
Decide ==
    /\ pc = "decide"
    /\ \E sorteo \in Sorteos(TRUE) :
           LET efecto == EfectoDecideAccion(
                             CalcularMovimientosValidos(tablero, siguiente_jugador),
                             tablero, siguiente_jugador,
                             experiencia_estado_valor[1], tasa_exploracion[1], sorteo)
           IN  /\ azar' = sorteo
               /\ accion' = efecto.accion
               /\ tablero' = efecto.tablero
               /\ experiencia_estado_valor' =
                      [experiencia_estado_valor EXCEPT ![1] = efecto.exp]
    /\ pc' = "decidido"
    /\ UNCHANGED <<fin, estado, siguiente_jugador, turnos_sin_captura,
                   estados_juego_actual, tasa_exploracion, tipo_jugador2, ronda,
                   ganador, libres, n_mov, llamadas, recompensa_final, exp_antes>>

NextDecide == Decide

SpecDecide == InitDecide /\ [][NextDecide]_vars

\* table value of the board that the move m leads to
ValorSucesor(m) == Valor(experiencia_estado_valor[1], Clave(MuevePieza(tablero, m)))

\* C10 as stated: with exploration rate 0 the move returned leads to a
\* successor of maximal table value, whatever the random draws.
C10_SinExploracion ==
    (pc = "decidido" /\ tasa_exploracion[1] = <<0, 1>>) =>
        \A m \in Rango(CalcularMovimientosValidos(tablero, siguiente_jugador)) :
            ValorSucesor(m) <= ValorSucesor(accion)

\* C11: a call of decide_accion leaves the live board, the side to move, the
\* no-capture counter, the agent's value table (no key is inserted by the
\* default lookup) and its trace as they were, and the move it returns is an
\* element of the legal-move list it was given.
C11_DecideSoloLee ==
    [][pc = "decide" =>
          /\ tablero' = tablero
          /\ siguiente_jugador' = siguiente_jugador
          /\ turnos_sin_captura' = turnos_sin_captura
          /\ experiencia_estado_valor' = experiencia_estado_valor
          /\ DOMAIN experiencia_estado_valor'[1] = DOMAIN experiencia_estado_valor[1]
          /\ estados_juego_actual' = estados_juego_actual
          /\ accion' \in Rango(CalcularMovimientosValidos(tablero, siguiente_jugador))
      ]_vars

\* an exploiting call (the draw is above the rate) that looked up successors
\* missing from a non-empty table
C11_Testigo ==
    /\ pc = "decidido"
    /\ ~Explora(azar.u, tasa_exploracion[1])
    /\ experiencia_estado_valor[1] # TablaVacia
    /\ \E m \in Rango(CalcularMovimientosValidos(tablero, siguiente_jugador)) :
           Clave(MuevePieza(tablero, m)) \notin DOMAIN experiencia_estado_valor[1]
    /\ accion \in Rango(CalcularMovimientosValidos(tablero, siguiente_jugador))

\* ------------------------------------------------------------------------
\* Properties of the plies of an episode
\* ------------------------------------------------------------------------
\* the agent that moves for the side to move
Agente(jugador) == IF jugador = 1 THEN 1 ELSE 2

\* C12: between two learning agents every applied move makes the trace of the
\* agent that moved, and only that one, grow by one entry, the serialized key
\* of the board after the move, appended at its end; after n plies the trace
\* of agent A has ceil(n/2) entries and that of agent B floor(n/2).
C12_TrazaPorJugada ==
    [][n_mov' = n_mov + 1 =>
          LET p == Agente(siguiente_jugador)
          IN  /\ estados_juego_actual'[p] =
                     Append(estados_juego_actual[p], Clave(tablero'))
              /\ estados_juego_actual'[3 - p] = estados_juego_actual[3 - p]
              /\ Len(estados_juego_actual'[1]) = (n_mov' + 1) \div 2
              /\ Len(estados_juego_actual'[2]) = n_mov' \div 2
      ]_vars

\* three plies played: agent A has recorded two different boards, the later
\* one last, and agent B one
C12_Testigo ==
    /\ pc = "bucle" /\ n_mov = 3
    /\ Len(estados_juego_actual[1]) = 2 /\ Len(estados_juego_actual[2]) = 1
    /\ estados_juego_actual[1][2] = Clave(tablero)
    /\ estados_juego_actual[1][1] # estados_juego_actual[1][2]

\* C13: against a human jugador 2 no state is ever appended to the trace of
\* jugador 2 and no reward-propagation call is made to it; agent A alone
\* records its moves and receives the single reward call of the episode.
C13_HumanoSinTraza ==
    tipo_jugador2 = "Hum" =>
        /\ estados_juego_actual[2] = << >>
        /\ experiencia_estado_valor[2] = TablaVacia
        /\ \A i \in DOMAIN llamadas : llamadas[i][1] = 1
        /\ EnPartida => Len(estados_juego_actual[1]) = (n_mov + 1) \div 2
        /\ pc = "reset" => Len(llamadas) = 1

\* an episode against the human has ended after moves of both sides and
\* agent A has been rewarded
C13_Testigo ==
    /\ tipo_jugador2 = "Hum" /\ pc = "reset" /\ n_mov >= 2
    /\ Len(llamadas) = 1 /\ llamadas[1][1] = 1
    /\ Len(estados_juego_actual[1]) >= 1
    /\ experiencia_estado_valor[1] # TablaVacia

\* every cell holds a piece code and no code other than 0 appears twice
PiezasValidas(t) ==
    /\ \A c \in Casillas : t[c] \in Piezas
    /\ \A v \in Piezas \ {0} : Cardinality({c \in Casillas : t[c] = v}) <= 1

\* C14: in every state reached by play each cell holds a code from
\* {0, +-1, +-5, +-6} and each side has at most one king, one rook and one
\* pawn; whenever a move is applied both kings are on the board, so no move
\* follows a king capture.
C14_PiezasYReyes ==
    [][/\ PiezasValidas(tablero)
       /\ PiezasValidas(tablero')
       /\ n_mov' = n_mov + 1 => AmbosReyes
      ]_vars

\* a king has been captured and the loop has stopped
C14_Testigo ==
    /\ pc = "final" /\ n_mov > 0 /\ fin
    /\ ~AmbosReyes
    /\ PiezasValidas(tablero)

\* ------------------------------------------------------------------------
\* Properties of the move generator
\* ------------------------------------------------------------------------
Signo(v) == IF v > 0 THEN 1 ELSE 0 - 1

\* the moves the scan of the generator gives, for the side that owns it, to
\* the piece on o
MovimientosDe(t, o) == MovimientosPieza(t, o, Signo(t[o]))

Destinos(movs) == {m[2] : m \in Rango(movs)}

MovimientoBienFormado(t, jugador, m) ==
    /\ m[1] \in Casillas /\ m[2] \in Casillas
    /\ t[m[1]] * jugador > 0
    /\ m[2] # m[1]
    /\ t[m[2]] * jugador <= 0

\* C15: on every board reached by play and for either side, every move of
\* the generator starts on a cell holding a piece of that side and ends on a
\* different cell of the 4x4 board that holds no piece of that side; on the
\* initial layout the list of side A is not empty.
C15_MovimientosBienFormados ==
    /\ \A jugador \in {1, 0 - 1} :
           \A m \in Rango(CalcularMovimientosValidos(tablero, jugador)) :
               MovimientoBienFormado(tablero, jugador, m)
    /\ tablero = InicializarTablero =>
           Len(CalcularMovimientosValidos(tablero, 1)) > 0

\* in mid-game the side to move can capture, and one of its pieces stands
\* next to a piece of the other side that is not to move
C15_Testigo ==
    /\ pc = "bucle" /\ n_mov > 0
    /\ \E m \in Rango(CalcularMovimientosValidos(tablero, siguiente_jugador)) :
           tablero[m[2]] * siguiente_jugador < 0
    /\ \E m \in Rango(CalcularMovimientosValidos(tablero, 0 - siguiente_jugador)) :
           tablero[m[2]] * siguiente_jugador > 0

\* the cells strictly between o and d of one row or one column
Entre(o, d) ==
    {c \in Casillas :
        \/ /\ c[1] = o[1] /\ o[1] = d[1]
           /\ \/ (o[2] < c[2] /\ c[2] < d[2])
              \/ (d[2] < c[2] /\ c[2] < o[2])
        \/ /\ c[2] = o[2] /\ o[2] = d[2]
           /\ \/ (o[1] < c[1] /\ c[1] < d[1])
              \/ (d[1] < c[1] /\ c[1] < o[1])}

\* along each ray: the empty cells before the first occupied one, and that
\* one when it holds a piece of the other side
DestinosTorre(t, o, jugador) ==
    {d \in Casillas :
        /\ d # o
        /\ d[1] = o[1] \/ d[2] = o[2]
        /\ \A c \in Entre(o, d) : t[c] = 0
        /\ t[d] = 0 \/ t[d] * jugador < 0}

\* C16: a rook never jumps: along each of its four rays its destinations are
\* exactly the empty cells before the first occupied cell, plus that cell if
\* and only if it holds an opposing piece; no destination is listed twice.
C16_TorreNoSalta ==
    \A o \in Casillas :
        Abs(tablero[o]) = TORRE =>
            LET movs == MovimientosDe(tablero, o)
                esperados == DestinosTorre(tablero, o, Signo(tablero[o]))
            IN  /\ Destinos(movs) = esperados
                /\ Len(movs) = Cardinality(esperados)

\* a rook can capture a piece that has a cell of the board behind it
C16_Testigo ==
    /\ pc = "bucle"
    /\ \E o \in Casillas, d \in Casillas, e \in Casillas :
           /\ Abs(tablero[o]) = TORRE
           /\ d \in Destinos(MovimientosDe(tablero, o))
           /\ tablero[d] # 0
           /\ d \in Entre(o, e)

DestinosPeon(t, o, jugador) ==
    {d \in Casillas :
        /\ d[1] = o[1] + jugador
        /\ \/ d[2] = o[2] /\ t[d] = 0
           \/ Abs(d[2] - o[2]) = 1 /\ t[d] * jugador < 0}

EnUltimaFila(o, jugador) == o[1] = (IF jugador = 1 THEN N_FILAS - 1 ELSE 0)

\* C17: a pawn moves exactly one row, toward increasing rows for side A and
\* decreasing rows for side B; the cell straight ahead is a destination iff
\* it is on the board and empty, each diagonal-forward cell iff it is on the
\* board and holds an opposing piece; a pawn on its last row has no move.
C17_Peon ==
    \A o \in Casillas :
        Abs(tablero[o]) = PEON =>
            LET jugador == Signo(tablero[o])
                movs == MovimientosDe(tablero, o)
                esperados == DestinosPeon(tablero, o, jugador)
            IN  /\ Destinos(movs) = esperados
                /\ Len(movs) = Cardinality(esperados)
                /\ EnUltimaFila(o, jugador) => movs = << >>

\* a pawn stands on its last row next to a piece of the other side and has
\* no move
C17_Testigo ==
    \E o \in Casillas, b \in Casillas :
        /\ Abs(tablero[o]) = PEON /\ EnUltimaFila(o, Signo(tablero[o]))
        /\ b[1] = o[1] /\ Abs(b[2] - o[2]) = 1
        /\ tablero[b] * tablero[o] < 0
        /\ MovimientosDe(tablero, o) = << >>

DestinosRey(t, o, jugador) ==
    {d \in Casillas :
        /\ d # o
        /\ Abs(d[1] - o[1]) <= 1 /\ Abs(d[2] - o[2]) <= 1
        /\ t[d] = 0 \/ t[d] * jugador < 0}

\* C18: the destinations of a king are exactly the cells of the board among
\* its eight neighbours that are empty or hold an opposing piece.
C18_Rey ==
    \A o \in Casillas :
        Abs(tablero[o]) = REY =>
            LET movs == MovimientosDe(tablero, o)
                esperados == DestinosRey(tablero, o, Signo(tablero[o]))
            IN  /\ Destinos(movs) = esperados
                /\ Len(movs) = Cardinality(esperados)

\* a king away from the edges has a piece of its own side and a piece of
\* the other side among its eight neighbours
C18_Testigo ==
    /\ pc = "bucle"
    /\ \E o \in Casillas, a \in Casillas, b \in Casillas :
           /\ Abs(tablero[o]) = REY
           /\ o[1] \in 1 .. N_FILAS - 2 /\ o[2] \in 1 .. N_COLS - 2
           /\ a # o /\ Abs(a[1] - o[1]) <= 1 /\ Abs(a[2] - o[2]) <= 1
           /\ b # o /\ Abs(b[1] - o[1]) <= 1 /\ Abs(b[2] - o[2]) <= 1
           /\ tablero[a] * tablero[o] > 0
           /\ tablero[b] * tablero[o] < 0

\* ------------------------------------------------------------------------
\* _serializa_estado on injected boards
\* ------------------------------------------------------------------------
TablerosSerial == TablerosInyectados \cup TablerosDecide

InitSerial ==
    /\ tablero \in TablerosSerial
    /\ siguiente_jugador \in {1, 0 - 1}
    /\ turnos_sin_captura \in {0, LIMITE_SIN_CAPTURA - 1}
    /\ fin = FALSE
    /\ estado = EstadoNone
    /\ estados_juego_actual = [p \in 1 .. 2 |-> << >>]
    /\ experiencia_estado_valor = [p \in 1 .. 2 |-> TablaVacia]
    /\ tasa_exploracion = [p \in 1 .. 2 |-> TASA_EXPLORACION]
    /\ tipo_jugador2 = "Maq"
    /\ pc = "serializa"
    /\ ronda = 0
    /\ ganador = None
    /\ accion = SinAccion
    /\ azar = SinSorteo
    /\ libres = 0
    /\ n_mov = 0
    /\ llamadas = << >>
    /\ recompensa_final = 0
    /\ exp_antes = TablaVacia

\* self._estado = self._serializa_estado(self._tablero, N_FILAS, N_COLS)
Serializa ==
    /\ pc = "serializa"
    /\ estado' = SerializaEstado(tablero, N_FILAS, N_COLS)
    /\ pc' = "serializado"
    /\ UNCHANGED <<tablero, fin, siguiente_jugador, turnos_sin_captura,
                   estados_juego_actual, experiencia_estado_valor,
                   tasa_exploracion, tipo_jugador2, ronda, ganador, accion, azar,
                   libres, n_mov, llamadas, recompensa_final, exp_antes>>

NextSerial == Serializa

SpecSerial == InitSerial /\ [][NextSerial]_vars

\* every injected board paired with its key
ClavesDeTableros == {<<Clave(t), t>> : t \in TablerosSerial}

\* the boards that differ from t in exactly one cell
Vecinos(t) == {[t EXCEPT ![c] = v] : c \in Casillas, v \in Piezas} \ {t}

\* C19: the serialized state is a function of the board layout alone: the
\* same 16 cells give the same key whatever the side to move and the
\* no-capture counter, serializing again gives the same key, and boards that
\* differ in at least one cell get different keys.
C19_ClaveDelTablero ==
    pc = "serializado" =>
        /\ estado = SerializaEstado(tablero, N_FILAS, N_COLS)
        /\ \A p \in ClavesDeTableros : (p[1] = estado) <=> (p[2] = tablero)
        /\ \A t \in Vecinos(tablero) : Clave(t) # estado

\* a board with pieces of both sides serialized with side B to move and a
\* counter that is not 0
C19_Testigo ==
    /\ pc = "serializado" /\ estado # EstadoNone
    /\ siguiente_jugador = 0 - 1 /\ turnos_sin_captura > 0
    /\ \E a \in Casillas, b \in Casillas : tablero[a] > 0 /\ tablero[b] < 0

\* C20: applying a move of the legal list puts the piece of the origin on
\* the destination, empties the origin, leaves the other 14 cells as they
\* were and flips the side to move; starting with side A the sides alternate
\* strictly: A makes plies 1, 3, 5, ... and B plies 2, 4, 6, ...
C20_AplicaMovimiento ==
    [][n_mov' = n_mov + 1 =>
          LET origen == accion'[1]
              destino == accion'[2]
          IN  /\ accion' \in Rango(CalcularMovimientosValidos(tablero, siguiente_jugador))
              /\ tablero[origen] # 0
              /\ tablero'[destino] = tablero[origen]
              /\ tablero'[origen] = 0
              /\ \A c \in Casillas \ {origen, destino} : tablero'[c] = tablero[c]
              /\ siguiente_jugador' = 0 - siguiente_jugador
              /\ siguiente_jugador = (IF n_mov' % 2 = 1 THEN 1 ELSE 0 - 1)
      ]_vars

\* an even ply, made by side B, was a capture and side A is to move
C20_Testigo ==
    /\ pc = "bucle" /\ n_mov >= 2 /\ n_mov % 2 = 0
    /\ siguiente_jugador = 1
    /\ turnos_sin_captura = 0
    /\ tablero[accion[1]] = 0 /\ tablero[accion[2]] < 0
    /\ NumPiezas(tablero) < NumPiezas(InicializarTablero)

\* ------------------------------------------------------------------------
\* Properties of the counter and of the end of an episode
\* ------------------------------------------------------------------------
\* C21: after every applied move the no-capture counter is the number of
\* consecutive non-capturing moves since the last capture (or since the start
\* of the episode): a move onto a non-empty cell sets it to 0 and removes one
\* piece, any other move adds exactly 1, whichever side moves.
C21_ContadorSinCaptura ==
    [][n_mov' = n_mov + 1 =>
          LET captura == tablero[accion'[2]] # 0
          IN  /\ turnos_sin_captura' = (IF captura THEN 0 ELSE turnos_sin_captura + 1)
              /\ NumPiezas(tablero') = NumPiezas(tablero) - (IF captura THEN 1 ELSE 0)
              /\ turnos_sin_captura' <= n_mov'
              /\ NumPiezas(tablero') = NumPiezas(InicializarTablero) =>
                     turnos_sin_captura' = n_mov'
      ]_vars

\* a capture has been followed by quiet moves of both sides
C21_Testigo ==
    /\ pc = "bucle"
    /\ Capturas >= 1
    /\ turnos_sin_captura >= 2
    /\ turnos_sin_captura < n_mov

\* the traces hold one entry per move made so far in the episode
TrazasCompletas ==
    /\ Len(estados_juego_actual[1]) = (n_mov + 1) \div 2
    /\ Len(estados_juego_actual[2]) = n_mov \div 2

\* C22: after the loop of an episode come the final evaluation, then the
\* reward propagation to each learning agent, then the resets: no reward call
\* precedes the end of the loop, the propagation runs over the complete,
\* not yet cleared traces of the episode, the traces are cleared only
\* afterwards, and each episode starts with empty traces, so that no entry
\* of an earlier episode takes part in a later propagation.
C22_OrdenTrasElBucle ==
    /\ pc = "bucle" =>
           /\ llamadas = << >>
           /\ TrazasCompletas
    /\ pc = "final" =>
           /\ llamadas = << >>
           /\ n_mov > 0 /\ TrazasCompletas
    /\ pc = "reset" =>
           /\ ganador # None
           /\ Len(llamadas) = 2
           /\ llamadas[1][2] = Recompensas(ganador)[1]
           /\ n_mov > 0 /\ TrazasCompletas
           /\ experiencia_estado_valor[1] =
                  RetropropagaRecompensa(exp_antes, estados_juego_actual[1],
                                         llamadas[1][2])
           /\ \A p \in 1 .. 2 :
                  Rango(estados_juego_actual[p]) \subseteq
                      DOMAIN experiencia_estado_valor[p]
    /\ pc = "retorno" =>
           /\ Len(llamadas) = 2
           /\ estados_juego_actual = [p \in 1 .. 2 |-> << >>]

\* the second episode has been rewarded: the propagation ran over its own
\* trace, which holds states the first episode did not see, and the table
\* also holds states of the first episode that are not in this trace
C22_Testigo ==
    /\ pc = "reset" /\ ronda = 2
    /\ exp_antes # TablaVacia
    /\ Rango(estados_juego_actual[1]) \ DOMAIN exp_antes # {}
    /\ DOMAIN exp_antes \ Rango(estados_juego_actual[1]) # {}
    /\ experiencia_estado_valor[1] # exp_antes

\* the neighbours of o on the board
VecinosDe(o) ==
    {d \in Casillas : d # o /\ Abs(d[1] - o[1]) <= 1 /\ Abs(d[2] - o[2]) <= 1}

\* C23: in every state reached by play a side whose king is on the board has
\* a legal move, because its king has one (at least 3 neighbours on the board,
\* at most 2 other pieces of its side); so the loop never finds an empty move
\* list and no decisive result comes from the no-legal-move rule.
C23_SiempreHayMovimiento ==
    /\ \A o \in Casillas :
           Abs(tablero[o]) = REY =>
               /\ Cardinality(VecinosDe(o)) >= 3
               /\ Cardinality({d \in Casillas \ {o} : tablero[d] * tablero[o] > 0}) <= 2
               /\ MovimientosDe(tablero, o) # << >>
               /\ CalcularMovimientosValidos(tablero, Signo(tablero[o])) # << >>
    /\ pc = "bucle" =>
           /\ ~fin
           /\ CalcularMovimientosValidos(tablero, siguiente_jugador) # << >>
    /\ (pc \in {"final", "reset"} /\ ganador \in {1, 0 - 1}) => ~AmbosReyes

\* a king stands in a corner with a piece of its own side next to it and its
\* side is to move
C23_Testigo ==
    /\ pc = "bucle"
    /\ \E o \in Casillas, a \in Casillas :
           /\ tablero[o] = siguiente_jugador * REY
           /\ Cardinality(VecinosDe(o)) = 3
           /\ a \in VecinosDe(o)
           /\ tablero[a] * tablero[o] > 0

\* C24: when the loop of an episode has been left, the evaluation made in
\* the loop and the final evaluation of the same state agree and are one of
\* A_WINS, B_WINS and DRAW, never None; so the catch-all branch of the
\* rewards (0.5 to both agents) is taken only for a real DRAW.
C24_EvaluacionFinal ==
    pc \in {"final", "reset"} =>
        /\ ganador \in {1, 0 - 1, 0}
        /\ fin
        /\ CalculaGanador(tablero, turnos_sin_captura).res = ganador
        /\ (pc = "reset" /\ llamadas[1][2] = ESCALA \div 2) =>
               /\ ganador = 0
               /\ AmbosReyes
               /\ turnos_sin_captura >= LIMITE_SIN_CAPTURA
               /\ \A i \in DOMAIN llamadas : llamadas[i][2] = ESCALA \div 2

\* an episode that ended in a draw has given 0.5 to both agents
C24_Testigo ==
    /\ pc = "reset" /\ ganador = 0
    /\ llamadas = << <<1, ESCALA \div 2>>, <<2, ESCALA \div 2>> >>
    /\ CalculaGanador(tablero, turnos_sin_captura).res = 0

\* C25: a decisive episode is won by the side that made the last move: the
\* move after which the evaluation is A_WINS is a move of side A onto the
\* king of side B, the one after which it is B_WINS a move of side B onto the
\* king of side A, and the final evaluation repeats that result; no side
\* loses by its own move.
C25_GanaElQueMueve ==
    [][/\ n_mov' = n_mov + 1 =>
              /\ ganador' = 1 =>
                     siguiente_jugador = 1 /\ tablero[accion'[2]] = 0 - REY
              /\ ganador' = 0 - 1 =>
                     siguiente_jugador = 0 - 1 /\ tablero[accion'[2]] = REY
              /\ ganador' \in {1, 0 - 1} => pc' = "final"
       /\ (pc = "final" /\ pc' = "reset" /\ ganador' \in {1, 0 - 1}) =>
              /\ ganador' = ganador
              /\ ganador' = 0 - siguiente_jugador
      ]_vars

\* side B has just captured the king of side A and the episode is rewarded
\* as B_WINS
C25_Testigo ==
    /\ pc = "reset" /\ ganador = 0 - 1
    /\ siguiente_jugador = 1
    /\ n_mov % 2 = 0
    /\ ~HayPieza(tablero, REY) /\ HayPieza(tablero, 0 - REY)
    /\ tablero[accion[2]] < 0

\* C26: in every reachable state the no-capture counter lies in 0..50; it
\* is at most 49 in every state in which a move is applied, and it is 50 only
\* in the terminal state of a DRAW.
C26_ContadorAcotado ==
    /\ turnos_sin_captura \in 0 .. LIMITE_SIN_CAPTURA
    /\ pc = "bucle" => turnos_sin_captura <= LIMITE_SIN_CAPTURA - 1
    /\ turnos_sin_captura = LIMITE_SIN_CAPTURA =>
           /\ pc \in {"final", "reset"}
           /\ fin
           /\ ganador = 0
           /\ CalculaGanador(tablero, turnos_sin_captura).res = 0

\* the fiftieth quiet move in a row has ended the episode as a draw
C26_Testigo ==
    /\ pc = "final" /\ fin /\ ganador = 0
    /\ turnos_sin_captura = LIMITE_SIN_CAPTURA
    /\ n_mov > LIMITE_SIN_CAPTURA

====
